---------------------------- MODULE Spec2Model ----------------------------
(***************************************************************************)
(* A model of falcon_kit/util/io.py: the process readers                   *)
(* (ProcessReaderContext, CapturedProcessReaderContext,                    *)
(* StreamedProcessReaderContext), splitlines_iter, and the FOFN validator  *)
(* (validated_fns / yield_validated_fns).                                  *)
(*                                                                         *)
(* Text is a sequence of one-character strings.  Python indices are kept   *)
(* 0-based as in the source (prevnl starts at -1).                         *)
(***************************************************************************)
EXTENDS Integers, Sequences, FiniteSets, TLC

VARIABLES
    \* ---- the process reader and its caller ----
    mode,        \* which subclass of ProcessReaderContext the reader is
    cmd,         \* self.cmd
    pc,          \* where the caller / the reader is
    proc,        \* self.proc: Absent, or the Popen object (its returncode)
    returncode,  \* self.returncode
    etype,       \* the exception the with-block raised (NoExc: none)
    raised,      \* the exception that left the with statement (NoExc: none)
    gen,         \* the generator readlines() returned: "none", "active", "done"
    delivered,   \* the lines the generator has yielded so far, in order
    rawRead,     \* streamed: the lines as iterating proc.stdout returned them
    rbuf,        \* streamed: the text layer's buffer of proc.stdout
    cbuf,        \* captured: what communicate() has read so far
    \* ---- the child process and its stdout pipe ----
    childText,   \* what the child writes to stdout in its life
    exitCode,    \* the code the child exits with
    child,       \* "unborn", "running", "closed" (stdout closed), "terminated"
    written,     \* how many characters the child has written
    pipe,        \* the characters in the pipe, written and not yet read
    \* ---- the splitlines_iter generator ----
    text,        \* its argument
    prevnl,      \* its local prevnl
    phase,       \* "idle", "loop" (in the while), "tail" (after the last yield), "end"
    \* ---- the FOFN validator ----
    fofnDir,     \* the directory of the manifest (dirname)
    cwd,         \* the current working directory
    fns,         \* the names the manifest lists
    vidx,        \* how many names yield_validated_fns has yielded
    vout,        \* what list() has collected from the generator
    vstate,      \* "idle", "running", "returned", "raised"
    result       \* what validated_fns returned (once vstate is "returned")

readerVars == <<mode, cmd, pc, proc, returncode, etype, raised, gen, delivered,
                rawRead, rbuf, cbuf>>
childVars  == <<childText, exitCode, child, written, pipe>>
splitVars  == <<text, prevnl, phase>>
fofnVars   == <<fofnDir, cwd, fns, vidx, vout, vstate, result>>
vars == <<readerVars, childVars, splitVars, fofnVars>>

---------------------------------------------------------------------------
\* Bounds of the model.
MaxOut  == 4      \* the child writes at most this many characters
PipeCap == 2      \* the capacity of the stdout pipe, in characters
MaxLen  == 5      \* splitlines_iter is applied to texts up to this length
MaxFns  == 3      \* a manifest lists at most this many names

NL == "\n"
Space == " "

\* All sequences over S of length at most n.
RECURSIVE SeqsUpTo(_, _)
SeqsUpTo(S, n) ==
    IF n = 0 THEN {<<>>}
    ELSE LET shorter == SeqsUpTo(S, n - 1)
         IN  shorter \cup {Append(s, c) : s \in {t \in shorter : Len(t) = n - 1}, c \in S}

---------------------------------------------------------------------------
\* Python values.
Absent == [tag |-> "absent", val |-> 0]      \* the attribute does not exist
None   == [tag |-> "None", val |-> 0]
IntVal(n) == [tag |-> "int", val |-> n]
\* "if x:" for x None or an int.
Truthy(v) == v.tag = "int" /\ v.val # 0

NoExc == [type |-> "none", args |-> <<>>, fields |-> {}]
\* What the caller's own code raises inside the with-block.
CallerError == [type |-> "CallerError", args |-> <<"boom">>, fields |-> {}]

\* str.find(c, start): the least index >= start holding c, or -1.
Find(t, c, start) ==
    LET hits == {i \in start..(Len(t) - 1) : t[i + 1] = c}
    IN  IF hits = {} THEN -1 ELSE CHOOSE i \in hits : \A j \in hits : i <= j

\* t[lo:hi]
Slice(t, lo, hi) == SubSeq(t, lo + 1, hi)

\* str.rstrip(): drops every trailing whitespace character.
Whitespace == {Space, NL}
RECURSIVE rstrip(_)
rstrip(t) ==
    IF t # <<>> /\ t[Len(t)] \in Whitespace THEN rstrip(SubSeq(t, 1, Len(t) - 1))
    ELSE t

---------------------------------------------------------------------------
\* splitlines_iter(text): one resumption of the generator.
\* The result says what it yields (or that it stops) and its state after.
SplitYieldsInLoop(t, p) == Find(t, NL, p + 1) >= 0
\* (mutant) the trailing fragment is yielded even when it is empty.
SplitYieldsTail_Always(t, p) == Find(t, NL, p + 1) < 0
SplitYieldsTail(t, p)   == Find(t, NL, p + 1) < 0 /\ (p + 1) # Len(t)

SplitResume(t, p, ph) ==
    IF ph = "loop" /\ SplitYieldsInLoop(t, p)
    THEN LET nextnl == Find(t, NL, p + 1)
         IN  [yields |-> TRUE, item |-> Slice(t, p + 1, nextnl),
              prevnl |-> nextnl, phase |-> "loop"]
    ELSE IF ph = "loop" /\ SplitYieldsTail(t, p)
    THEN [yields |-> TRUE, item |-> Slice(t, p + 1, Len(t)),
          prevnl |-> p, phase |-> "tail"]
    ELSE [yields |-> FALSE, item |-> <<>>, prevnl |-> p, phase |-> "end"]

---------------------------------------------------------------------------
\* The inputs.
Modes == {"captured", "streamed"}
Cmds == {"seq 2", "sh run.sh"}
ExitCodes == {0, 1, 3}
OutAlphabet == {"a", Space, NL}
ChildTexts == SeqsUpTo(OutAlphabet, MaxOut)

\* (mutant) the two arguments of the format swapped.
FailureMsg_Swapped(rc, c) == "'" \o c \o "'" \o " <- " \o ToString(rc)
\* "%r <- %r" % (self.returncode, self.cmd)
FailureMsg(rc, c) == ToString(rc) \o " <- " \o "'" \o c \o "'"
FailureException(rc, c) ==
    [type |-> "Exception", args |-> <<FailureMsg(rc, c)>>, fields |-> {}]

\* The states of the child as the parent can observe them.
AtEOF == child \in {"closed", "terminated"} /\ pipe = <<>>
\* (mutant) wait() replaced by a call that does not block.
WaitReturns_NoWait == TRUE
\* Popen.wait() returns once the child has terminated.
WaitReturns == child = "terminated"
\* (mutant) communicate() replaced by a read to end-of-file with no wait().
CommunicateReturns_NoWait == child \in {"closed", "terminated"} /\ pipe = <<>>
\* Popen.communicate() returns once stdout is at end-of-file and wait() returned.
CommunicateReturns == AtEOF /\ WaitReturns
\* The status wait() records in proc.returncode.
ReapedStatus == IF child = "terminated" THEN IntVal(exitCode) ELSE proc.val

IdleSplit == text = <<>> /\ prevnl = -1 /\ phase = "idle"
IdleFofn  == /\ fofnDir = <<>> /\ cwd = <<>> /\ fns = <<>> /\ vidx = 0
             /\ vout = <<>> /\ vstate = "idle" /\ result = <<>>
IdleReader == /\ mode = "captured" /\ cmd = "seq 2" /\ pc = "idle"
              /\ proc = Absent /\ returncode = Absent /\ etype = NoExc
              /\ raised = NoExc /\ gen = "none" /\ delivered = <<>>
              /\ rawRead = <<>> /\ rbuf = <<>> /\ cbuf = <<>>
IdleChild == /\ childText = <<>> /\ exitCode = 0 /\ child = "unborn"
             /\ written = 0 /\ pipe = <<>>

\* ProcessReaderContext.__init__: a reader constructed for a command.
Init ==
    /\ mode \in Modes
    /\ cmd \in Cmds
    /\ pc = "constructed"
    /\ proc = Absent
    /\ returncode = Absent
    /\ etype = NoExc
    /\ raised = NoExc
    /\ gen = "none"
    /\ delivered = <<>>
    /\ rawRead = <<>>
    /\ rbuf = <<>>
    /\ cbuf = <<>>
    /\ childText \in ChildTexts
    /\ exitCode \in ExitCodes
    /\ child = "unborn"
    /\ written = 0
    /\ pipe = <<>>
    /\ IdleSplit
    /\ IdleFofn

\* ProcessReaderContext.__enter__: spawn the child with stdout on a pipe.
Enter ==
    /\ pc = "constructed"
    /\ pc' = "block"
    /\ proc' = [tag |-> "Popen", val |-> None]
    /\ child' = "running"
    /\ UNCHANGED <<mode, cmd, returncode, etype, raised, gen, delivered, rawRead,
                   rbuf, cbuf, childText, exitCode, written, pipe, splitVars, fofnVars>>


---------------------------------------------------------------------------
\* The child process (the command sp.Popen started).

\* The child writes its next character; it blocks while the pipe is full.
ChildWrite ==
    /\ child = "running"
    /\ written < Len(childText)
    /\ Len(pipe) < PipeCap
    /\ pipe' = Append(pipe, childText[written + 1])
    /\ written' = written + 1
    /\ UNCHANGED <<readerVars, childText, exitCode, child, splitVars, fofnVars>>

\* Having written everything, the child closes its stdout ...
ChildClose ==
    /\ child = "running"
    /\ written = Len(childText)
    /\ child' = "closed"
    /\ UNCHANGED <<readerVars, childText, exitCode, written, pipe, splitVars, fofnVars>>

\* ... and terminates with its exit code.
ChildExit ==
    /\ child = "closed"
    /\ child' = "terminated"
    /\ UNCHANGED <<readerVars, childText, exitCode, written, pipe, splitVars, fofnVars>>

\* The child is blocked writing to a full pipe.
ChildBlocked == child = "running" /\ written < Len(childText) /\ Len(pipe) >= PipeCap

---------------------------------------------------------------------------
\* The caller's with-block: "for line in reader.readlines(): ...".

\* next() on the generator of readlines(): the generator body runs until it
\* yields or returns, and blocks where the code blocks.
CallNext ==
    /\ pc = "block"
    /\ gen # "done"
    /\ \/ mode = "streamed"
       \/ gen = "none"
    /\ pc' = "in_next"
    /\ gen' = "active"
    /\ UNCHANGED <<mode, cmd, proc, returncode, etype, raised, delivered, rawRead,
                   rbuf, cbuf, childVars, splitVars, fofnVars>>

\* CapturedProcessReaderContext.readlines: communicate() reads the pipe ...
CommunicateRead ==
    /\ pc = "in_next"
    /\ mode = "captured"
    /\ pipe # <<>>
    /\ cbuf' = cbuf \o pipe
    /\ pipe' = <<>>
    /\ UNCHANGED <<mode, cmd, pc, proc, returncode, etype, raised, gen, delivered,
                   rawRead, rbuf, childText, exitCode, child, written, splitVars, fofnVars>>

\* The generator of splitlines_iter resumed inside readlines(): the line goes to
\* the caller, or the generator is exhausted.
YieldFromSplit(t, p, ph) ==
    LET r == SplitResume(t, p, ph)
    IN  /\ text' = t
        /\ prevnl' = r.prevnl
        /\ phase' = r.phase
        /\ delivered' = IF r.yields THEN Append(delivered, r.item) ELSE delivered
        /\ gen' = IF r.yields THEN "active" ELSE "done"
        /\ pc' = "block"

\* ... and returns at end-of-file, the child reaped; splitlines_iter(output)
\* starts and the first line (if any) is yielded.
CommunicateReturn ==
    /\ pc = "in_next"
    /\ mode = "captured"
    /\ CommunicateReturns
    /\ proc' = [proc EXCEPT !.val = ReapedStatus]
    /\ YieldFromSplit(cbuf, -1, "loop")
    /\ UNCHANGED <<mode, cmd, returncode, etype, raised, rawRead, rbuf, cbuf,
                   childVars, fofnVars>>

\* Captured: the later lines come from splitlines_iter without any I/O.
CapturedNext ==
    /\ pc = "block"
    /\ mode = "captured"
    /\ gen = "active"
    /\ YieldFromSplit(text, prevnl, phase)
    /\ UNCHANGED <<mode, cmd, proc, returncode, etype, raised, rawRead, rbuf, cbuf,
                   childVars, fofnVars>>

\* StreamedProcessReaderContext.readlines, "for line in self.proc.stdout":
\* with no complete line buffered, the text layer reads what the pipe holds.
HasLine(b) == Find(b, NL, 0) >= 0
StreamFill ==
    /\ pc = "in_next"
    /\ mode = "streamed"
    /\ ~HasLine(rbuf)
    /\ pipe # <<>>
    /\ rbuf' = rbuf \o pipe
    /\ pipe' = <<>>
    /\ UNCHANGED <<mode, cmd, pc, proc, returncode, etype, raised, gen, delivered,
                   rawRead, cbuf, childText, exitCode, child, written, splitVars, fofnVars>>

\* What readlines() makes of a line read from the pipe.
StreamedLine(line) == rstrip(line)

\* A line is complete (or end-of-file ends the last one): yield it.
StreamYield ==
    /\ pc = "in_next"
    /\ mode = "streamed"
    /\ \/ HasLine(rbuf)
       \/ AtEOF /\ rbuf # <<>>
    /\ LET n == IF HasLine(rbuf) THEN Find(rbuf, NL, 0) + 1 ELSE Len(rbuf)
           line == Slice(rbuf, 0, n)
       IN  /\ rawRead' = Append(rawRead, line)
           /\ delivered' = Append(delivered, StreamedLine(line))
           /\ rbuf' = Slice(rbuf, n, Len(rbuf))
    /\ pc' = "block"
    /\ UNCHANGED <<mode, cmd, proc, returncode, etype, raised, gen, cbuf,
                   childVars, splitVars, fofnVars>>

\* End-of-file with nothing buffered: the loop, and the generator, end.
StreamStop ==
    /\ pc = "in_next"
    /\ mode = "streamed"
    /\ AtEOF
    /\ rbuf = <<>>
    /\ gen' = "done"
    /\ pc' = "block"
    /\ UNCHANGED <<mode, cmd, proc, returncode, etype, raised, delivered, rawRead,
                   rbuf, cbuf, childVars, splitVars, fofnVars>>

---------------------------------------------------------------------------
\* ProcessReaderContext.__exit__(etype, evalue, etb).

\* Lines 166-170, given what proc.returncode holds: record it, raise on a
\* truthy code, else delete self.proc.  An exception __exit__ raises replaces
\* the one in flight; otherwise (it returns None) that one goes on propagating.
ExitTail(status, et) ==
    /\ returncode' = status
    /\ etype' = et
    /\ IF Truthy(status)
       THEN /\ raised' = FailureException(status.val, cmd)
            /\ proc' = [proc EXCEPT !.val = status]
       ELSE /\ raised' = et
            /\ proc' = Absent
    /\ pc' = "exited"

\* The with-block ends without an exception: __exit__(None, None, None) is
\* called and blocks in self.proc.wait().
BlockEnd ==
    /\ pc = "block"
    /\ pc' = "exit_wait"
    /\ UNCHANGED <<mode, cmd, proc, returncode, etype, raised, gen, delivered,
                   rawRead, rbuf, cbuf, childVars, splitVars, fofnVars>>

\* wait() returns; the rest of __exit__ runs.
ExitClean ==
    /\ pc = "exit_wait"
    /\ WaitReturns
    /\ ExitTail(ReapedStatus, NoExc)
    /\ UNCHANGED <<mode, cmd, gen, delivered, rawRead, rbuf, cbuf, childVars,
                   splitVars, fofnVars>>

\* The with-block raises: __exit__(etype, ...) does not wait.
ExitOnException ==
    /\ pc = "block"
    /\ ExitTail(proc.val, CallerError)
    /\ UNCHANGED <<mode, cmd, gen, delivered, rawRead, rbuf, cbuf, childVars,
                   splitVars, fofnVars>>

Next ==
    \/ Enter
    \/ ChildWrite
    \/ ChildClose
    \/ ChildExit
    \/ CallNext
    \/ CommunicateRead
    \/ CommunicateReturn
    \/ CapturedNext
    \/ StreamFill
    \/ StreamYield
    \/ StreamStop
    \/ BlockEnd
    \/ ExitClean
    \/ ExitOnException

Spec == Init /\ [][Next]_vars

---------------------------------------------------------------------------
\* Reference notions the statements below are measured against.

\* The lines of a text: each newline ends a line; what follows the last
\* newline, if not empty, is a last line.
RECURSIVE LiteralLines(_)
LiteralLines(t) ==
    IF t = <<>> THEN <<>>
    ELSE IF \A i \in 1..Len(t) : t[i] # NL THEN <<t>>
    ELSE LET k == CHOOSE i \in 1..Len(t) :
                      t[i] = NL /\ \A j \in 1..(i - 1) : t[j] # NL
         IN  <<SubSeq(t, 1, k - 1)>> \o LiteralLines(SubSeq(t, k + 1, Len(t)))

\* A line without its line terminator, every other character kept.
Chomp(line) ==
    IF line # <<>> /\ line[Len(line)] = NL THEN SubSeq(line, 1, Len(line) - 1)
    ELSE line

CleanExit == pc = "exited" /\ etype = NoExc
ExceptionExit == pc = "exited" /\ etype = CallerError
InScope == pc \in {"block", "in_next", "exit_wait"}

---------------------------------------------------------------------------
\* C1 (as stated): after a clean with-block, a non-zero exit code makes
\* __exit__ raise a ProcessFailed error with the fields exit_code and command;
\* exit code 0 raises nothing.
C1_Original ==
    CleanExit =>
        IF exitCode # 0
        THEN /\ raised.type = "ProcessFailed"
             /\ <<"exit_code", exitCode>> \in raised.fields
             /\ <<"command", cmd>> \in raised.fields
        ELSE raised = NoExc

\* The message of the failure, written out for every command and exit code.
C1_Message ==
    IF cmd = "seq 2"
    THEN (IF exitCode = 1 THEN "1 <- 'seq 2'" ELSE "3 <- 'seq 2'")
    ELSE (IF exitCode = 1 THEN "1 <- 'sh run.sh'" ELSE "3 <- 'sh run.sh'")

\* C1 (amended): after a clean with-block, a non-zero exit code makes __exit__
\* raise a plain Exception whose only argument is the message
\* "<repr of the exit code> <- <repr of the command>", with no fields of its
\* own; exit code 0 raises nothing.  Both reader modes.
C1_Amended ==
    CleanExit =>
        IF exitCode # 0
        THEN /\ raised.type = "Exception"
             /\ raised.args = <<C1_Message>>
             /\ raised.fields = {}
        ELSE raised = NoExc

C1_Witness ==
    /\ CleanExit
    /\ exitCode = 3
    /\ cmd = "sh run.sh"
    /\ raised.type = "Exception"

\* C2: when the with-block raised, the exception that leaves the scope is the
\* caller's own, and __exit__ raised nothing in its place.
C2_Original == ExceptionExit => raised = CallerError

\* C3: self.proc exists exactly between scope-entry and scope-exit.
C3_Original == (proc # Absent) <=> InScope

\* C4: fully drained, either reader has yielded exactly the literal lines of
\* the child's output, in order.
C4_Original == gen = "done" => delivered = LiteralLines(childText)

\* C6: in captured mode a line is delivered only after the child has
\* terminated and communicate() has read its entire output.
C6_CapturedAfterTermination ==
    (mode = "captured" /\ delivered # <<>>) =>
        /\ child = "terminated"
        /\ cbuf = childText
        /\ text = childText

C6_Witness == mode = "captured" /\ Len(delivered) = 2 /\ gen = "active"

\* The other half of C6: in streamed mode a line can be with the caller while
\* the child is still running (a reachable state).
C6_StreamedEarly == mode = "streamed" /\ delivered # <<>> /\ child = "running"

\* C7: self.returncode does not exist before __exit__ runs; once __exit__ has
\* finished on the clean path the child has terminated, self.returncode is its
\* integer exit code, and the outcome is success exactly for code 0; a failure
\* is never raised for a child that has not terminated.
C7_Lifecycle ==
    /\ pc = "constructed" => child = "unborn"
    /\ pc \in {"constructed", "block", "in_next", "exit_wait"} => returncode = Absent
    /\ CleanExit =>
           /\ child = "terminated"
           /\ returncode = IntVal(exitCode)
           /\ (raised = NoExc) <=> (exitCode = 0)
    /\ raised.type = "Exception" => child = "terminated"

C7_Witness ==
    /\ CleanExit
    /\ mode = "streamed"
    /\ returncode = IntVal(0)
    /\ gen = "none"

\* C9: in streamed mode every yielded line is the line read from the pipe
\* without its terminator, all other characters kept.
C9_Original ==
    mode = "streamed" =>
        \A i \in 1..Len(delivered) : delivered[i] = Chomp(rawRead[i])

\* C10: on the clean path __exit__ is never left waiting for a child that is
\* itself blocked writing to the full pipe.
C10_Original == pc = "exit_wait" => (child = "terminated" \/ ~ChildBlocked)

---------------------------------------------------------------------------
\* splitlines_iter on its own: the generator is created for a text and resumed
\* until it is exhausted; delivered collects what it yields.
SplitAlphabet == {"a", "b", NL}
SplitTexts == SeqsUpTo(SplitAlphabet, MaxLen)

SplitInit ==
    /\ IdleReader
    /\ IdleChild
    /\ IdleFofn
    /\ text \in SplitTexts
    /\ prevnl = -1
    /\ phase = "loop"

SplitNext ==
    /\ phase \in {"loop", "tail"}
    /\ LET r == SplitResume(text, prevnl, phase)
       IN  /\ prevnl' = r.prevnl
           /\ phase' = r.phase
           /\ delivered' = IF r.yields THEN Append(delivered, r.item) ELSE delivered
    /\ UNCHANGED <<mode, cmd, pc, proc, returncode, etype, raised, gen, rawRead,
                   rbuf, cbuf, childVars, text, fofnVars>>

SpecSplit == SplitInit /\ [][SplitNext]_vars

\* "\n".join(items)
RECURSIVE JoinNL(_)
JoinNL(items) ==
    IF items = <<>> THEN <<>>
    ELSE IF Len(items) = 1 THEN items[1]
    ELSE items[1] \o <<NL>> \o JoinNL(Tail(items))

NewlineCount(t) == Cardinality({i \in 1..Len(t) : t[i] = NL})

---------------------------------------------------------------------------
\* The FOFN validator.  A path is [abs, parts]: whether it starts at the root,
\* and its components; the empty string is the relative path of no components.
\* The file system has no symbolic links, so ".." resolves lexically.

Path(a, ps) == [abs |-> a, parts |-> ps]
Up == ".."

\* The file system the validation runs against: /d is a directory, /f and
\* /d/f are regular files with content, /d/e is an empty regular file.
FsDirs == {<<>>, <<"d">>}
FsFiles == {<<"f">>, <<"d", "f">>, <<"d", "e">>}
FsSize(ps) == IF ps = <<"f">> THEN 2 ELSE IF ps = <<"d", "f">> THEN 3 ELSE 0

\* os.path.normpath on the components: "x/.." collapses, ".." at the root is
\* dropped, leading ".." of a relative path stay.
RECURSIVE NormParts(_, _, _)
NormParts(a, done, rest) ==
    IF rest = <<>> THEN done
    ELSE LET c == Head(rest)
         IN  IF c # Up THEN NormParts(a, Append(done, c), Tail(rest))
             ELSE IF done # <<>> /\ done[Len(done)] # Up
                  THEN NormParts(a, SubSeq(done, 1, Len(done) - 1), Tail(rest))
             ELSE IF a THEN NormParts(a, done, Tail(rest))
             ELSE NormParts(a, Append(done, Up), Tail(rest))
normpath(p) == Path(p.abs, NormParts(p.abs, <<>>, p.parts))

isabs(p) == p.abs
\* os.path.join(a, b)
join(a, b) == IF b.abs THEN b ELSE Path(a.abs, a.parts \o b.parts)
\* os.path.abspath(p)
abspath(p) == normpath(join(Path(TRUE, cwd), p))

\* os.path.relpath(p): p relative to the current directory.
CommonLen(s, t) ==
    LET agree == {n \in 0..Len(s) : n <= Len(t) /\ \A i \in 1..n : s[i] = t[i]}
    IN  CHOOSE n \in agree : \A m \in agree : m <= n
relpath(p) ==
    LET start == abspath(Path(FALSE, <<>>)).parts
        target == abspath(p).parts
        i == CommonLen(start, target)
    IN  Path(FALSE, [k \in 1..(Len(start) - i) |-> Up] \o SubSeq(target, i + 1, Len(target)))

\* os.path.isfile(p) and filesize(p), p taken from the current directory.
isfile(p) == abspath(p).parts \in FsFiles
filesize(p) == FsSize(abspath(p).parts)

\* (mutant) the name is taken from the current directory instead.
ManifestJoin_Cwd(fn) == join(Path(TRUE, cwd), fn)
\* A name of the manifest put under the manifest's directory (line 262).
ManifestJoin(fn) == join(Path(TRUE, fofnDir), fn)
\* What the loop body makes of fn before checking it.
Resolved(fn) == IF isabs(fn) THEN fn ELSE normpath(relpath(ManifestJoin(fn)))
\* The three assertions of the loop body.
Passes(fn) ==
    /\ fn # Path(FALSE, <<>>)
    /\ isfile(Resolved(fn))
    /\ filesize(Resolved(fn)) # 0

FofnNames ==
    { Path(FALSE, <<>>), Path(FALSE, <<"f">>), Path(FALSE, <<"e">>),
      Path(FALSE, <<"g">>), Path(FALSE, <<"d">>), Path(FALSE, <<Up, "f">>),
      Path(FALSE, <<"d", "f">>), Path(TRUE, <<"d", "f">>), Path(TRUE, <<"f">>),
      Path(TRUE, <<"d", "e">>), Path(TRUE, <<"d">>) }

\* validated_fns(fofn) is called: the manifest has been read into fns.
FofnInit ==
    /\ IdleReader
    /\ IdleChild
    /\ IdleSplit
    /\ fofnDir \in FsDirs
    /\ cwd \in FsDirs
    /\ fns \in SeqsUpTo(FofnNames, MaxFns)
    /\ vidx = 0
    /\ vout = <<>>
    /\ vstate = "running"
    /\ result = <<>>

\* One turn of the loop of yield_validated_fns: the name passes and is
\* yielded into the list being built ...
ValidateYield ==
    /\ vstate = "running"
    /\ vidx < Len(fns)
    /\ Passes(fns[vidx + 1])
    /\ vout' = Append(vout, Resolved(fns[vidx + 1]))
    /\ vidx' = vidx + 1
    /\ UNCHANGED <<readerVars, childVars, splitVars, fofnDir, cwd, fns, vstate, result>>

\* ... or an assertion fails: the exception leaves validated_fns.
ValidateRaise ==
    /\ vstate = "running"
    /\ vidx < Len(fns)
    /\ ~Passes(fns[vidx + 1])
    /\ vstate' = "raised"
    /\ UNCHANGED <<readerVars, childVars, splitVars, fofnDir, cwd, fns, vidx, vout, result>>

\* The generator is exhausted: validated_fns returns the list.
ValidateReturn ==
    /\ vstate = "running"
    /\ vidx = Len(fns)
    /\ result' = vout
    /\ vstate' = "returned"
    /\ UNCHANGED <<readerVars, childVars, splitVars, fofnDir, cwd, fns, vidx, vout>>

FofnNext ==
    \/ ValidateYield
    \/ ValidateRaise
    \/ ValidateReturn

SpecFofn == FofnInit /\ [][FofnNext]_vars

\* Reference: the file a manifest entry names, taken from the manifest's own
\* directory unless absolute, as the components from the root.
RECURSIVE Walk(_, _)
Walk(at, rest) ==
    IF rest = <<>> THEN at
    ELSE IF Head(rest) = Up
         THEN Walk(IF at = <<>> THEN at ELSE SubSeq(at, 1, Len(at) - 1), Tail(rest))
    ELSE Walk(Append(at, Head(rest)), Tail(rest))
EntryTarget(e) == Walk(IF e.abs THEN <<>> ELSE fofnDir, e.parts)
\* The file a returned path names, taken from the current directory.
ReturnedTarget(p) == Walk(IF p.abs THEN <<>> ELSE cwd, p.parts)
EntryGood(e) ==
    /\ e.parts # <<>>
    /\ EntryTarget(e) \in FsFiles
    /\ FsSize(EntryTarget(e)) > 0

\* C8: validated_fns returns only the complete list, one path per manifest
\* entry in manifest order, each naming the non-empty regular file that the
\* entry names from the manifest's directory (or absolutely); it raises at the
\* first entry that is empty, is no regular file or has size zero, with every
\* entry before it valid; and it returns nothing when it raises.
C8_Validation ==
    /\ vstate = "returned" =>
           /\ Len(result) = Len(fns)
           /\ \A i \in 1..Len(fns) :
                  /\ EntryGood(fns[i])
                  /\ ReturnedTarget(result[i]) = EntryTarget(fns[i])
                  /\ fns[i].abs => result[i] = fns[i]
    /\ vstate = "raised" =>
           /\ result = <<>>
           /\ vidx < Len(fns)
           /\ ~EntryGood(fns[vidx + 1])
           /\ \A i \in 1..vidx : EntryGood(fns[i])
    /\ vstate = "running" =>
           /\ result = <<>>
           /\ \A i \in 1..vidx : EntryGood(fns[i])

C8_Witness ==
    /\ vstate = "returned"
    /\ Len(result) = 3
    /\ fofnDir = <<"d">>
    /\ cwd = <<>>
    /\ \E i \in 1..3 : fns[i] = Path(FALSE, <<Up, "f">>)
    /\ \E i \in 1..3 : fns[i] = Path(FALSE, <<"f">>)

=============================================================================
